---------------------------- MODULE Spec2Model ----------------------------
(***************************************************************************)
(* Capture session of the IWR1443 / DCA1000 radar reader.                  *)
(*                                                                         *)
(*   Radar.run_polling   src/src/iwr1443/radar.py  53-80                   *)
(*   Radar.save_frames   src/src/iwr1443/radar.py  82-143                  *)
(*   Radar.read          src/src/iwr1443/radar.py  192-222                 *)
(*   Radar.close         src/src/iwr1443/radar.py  230-236                 *)
(*   DCAPub              src/src/iwr1443/dcapub.py                         *)
(*                                                                         *)
(* DCA1000 (the socket: recv_data, flush_data_socket, close) and           *)
(* FrameBuffer (add_msg) are imported by dcapub.py but their files are not *)
(* part of the sources; they are modelled from sections 4.1 and 4.2 of the *)
(* specification.                                                          *)
(***************************************************************************)
EXTENDS Integers, Sequences, FiniteSets, TLC

(***************************************************************************)
(* Bounds of the model.                                                    *)
(***************************************************************************)
MaxFrames == 2
\* largest n_frames of a session

MaxSent == 5
\* packets the capture card emits in one behaviour

MaxQueue == 2
\* datagrams the OS socket buffer holds

MaxTime == 3
\* last wall-clock instant

MaxCloses == 2
\* most calls of close() in a run

MaxRmemUnits == 8
\* largest rmem_max of the OS, in units of RmemUnit

MaxDefaultUnits == 4
\* largest default SO_RCVBUF of a socket, in units of DefaultUnit

MaxFrameSize == 3
\* largest params["frame_size"] of a session, in bytes

StallTimeout == 2
\* stallTimeoutSeconds of the specification (the code has no such field)

(***************************************************************************)
(* Program parameters.                                                     *)
(***************************************************************************)
FrameSizes == 2..MaxFrameSize
\* the values of params["frame_size"]

PacketBytes == 1
\* payload bytes of one datagram

RequestedSize == 131071 * 50
\* buffer_size of DCAPub.__init__

RmemUnit == 1048576
\* step between the values of rmem_max

DefaultUnit == 65536
\* step between the default sizes of a socket's receive buffer

\* An OS that grants the requested size as it is.
AcceptingOS == [rejects |-> FALSE, rmem_max |-> RequestedSize, factor |-> 1]

SocketTimeout == 1
\* read timeout of the data socket, in clock ticks

None == -1
\* Python's None for the two timestamps

VARIABLES
    pc,                   \* position of run_polling
    n_frames,             \* self.params['n_frames']
    frames,               \* the local list `frames`
    capture_start_time,   \* self.capture_start_time
    datetime_start_time,  \* self.datetime_start_time
    now,                  \* the wall clock, time.time()
    sockq,                \* datagrams queued in the OS socket buffer
    sent,                 \* packets emitted by the capture card so far
    fb,                   \* self.radar.frame_buffer
    closes,               \* calls of DCA1000.close()
    exc,                  \* exception that left run_polling, or "none"
    disk,                 \* what save_frames has written
    flushes,              \* history: calls of flush_data_socket
    recvs,                \* history: datagrams returned by recv_data
    staleIn,              \* history: a datagram queued before the flush was ingested
    discarded,            \* history: datagrams thrown away by the flush
    timeouts,             \* history: recv_data calls that ended in socket.timeout
    errors,               \* history: recv_data calls that ended in another failure
    intrAt,               \* history: where the KeyboardInterrupt hit, or "none"
    firstAt,              \* history: instant at which the first frame was appended, or None
    saves,                \* history: calls of save_frames
    emitted,              \* history: frames returned by add_msg, in the order of their completion
    reordered,            \* history: a datagram was ingested after a later one of the stream
    fed,                  \* history: the datagrams handed to the assembler, in order
    emittedAt,            \* history: per emitted frame, the datagrams ingested by then
    sock,                 \* the data socket: "open" or "closed"
    os,                   \* how the OS treats SO_RCVBUF: rejects, rmem_max, factor
    rcvbuf,               \* SO_RCVBUF of the data socket, as getsockopt returns it
    report,               \* the buffer sizes printed by DCAPub.__init__ (None: not yet)
    reshape,              \* self.reshape of Radar
    second,               \* the local flag `second` of Radar.read
    returned,             \* what Radar.read returned (NoReturn: nothing, or None)
    lastFrameTime         \* history: instant of the last appended frame, or of the session start

vars == <<pc, n_frames, frames, capture_start_time, datetime_start_time, now,
          sockq, sent, fb, closes, exc, disk, flushes, recvs, staleIn,
          discarded, timeouts, errors, intrAt, lastFrameTime,
          firstAt, saves, emitted, reordered, fed, emittedAt, sock, os, rcvbuf, report, reshape, second, returned>>

(***************************************************************************)
(* Pure helpers.                                                           *)
(***************************************************************************)
Max(a, b) == IF a >= b THEN a ELSE b

Min(a, b) == IF a <= b THEN a ELSE b

\* Faulty variant of Concat: the frames are joined last to first.
RECURSIVE ConcatReversed(_)
ConcatReversed(fs) == IF fs = <<>> THEN <<>> ELSE ConcatReversed(Tail(fs)) \o Head(fs)

\* Faulty variant of Concat: the joined frames follow a one-element header.
RECURSIVE ConcatWithHeader(_)
ConcatWithHeader(fs) ==
    IF fs = <<>> THEN <<0>>
    ELSE ConcatWithHeader(SubSeq(fs, 1, Len(fs) - 1)) \o fs[Len(fs)]

\* np.asarray(all_frames, dtype="<i2"): every element as a 16-bit signed integer.
Int16(x) == ((x + 32768) % 65536) - 32768

AsInt16(a) == [i \in 1..Len(a) |-> Int16(a[i])]

\* np.concatenate(frames, axis=0)
RECURSIVE Concat(_)
Concat(fs) == IF fs = <<>> THEN <<>> ELSE Head(fs) \o Concat(Tail(fs))

\* The byte the capture card puts at stream position o (never 0, so that a
\* zero in a frame is a gap).
StreamByte(o) == o + 1

\* The datagram with sequence number s (1-based) of the current stream.
Packet(s, isPre) ==
    [seqn  |-> s,
     bytec |-> (s - 1) * PacketBytes,
     msg   |-> [i \in 1..PacketBytes |-> StreamByte((s - 1) * PacketBytes + i - 1)],
     pre   |-> isPre]

\* A datagram left in the socket buffer by an earlier capture.
Residual == [seqn |-> 2, bytec |-> PacketBytes, msg |-> [i \in 1..PacketBytes |-> 9], pre |-> TRUE]


(***************************************************************************)
(* DCA1000: the data socket (section 4.1, PacketSource).                   *)
(***************************************************************************)
\* flush(): drains and discards every datagram queued in the socket buffer.
flush_data_socket(q) == <<>>

\* next(): the oldest queued datagram, as (seqn, bytec, msg).
recv_data(q) == Head(q)

\* DCA1000.close(): the socket is released, whatever its state was.
close(s) == "closed"

(***************************************************************************)
(* Radar.read: the value handed back to the caller.                        *)
(***************************************************************************)
\* read has not returned, or it returned None.
NoReturn == [data |-> <<>>, reshaped |-> FALSE]

\* dsp.reshape_frame rearranges the samples of one frame by chirp, sample and
\* antenna. Only the frame it was applied to is kept here.
reshape_frame(frame_data) == [data |-> frame_data, reshaped |-> TRUE]

(***************************************************************************)
(* FrameBuffer: the ring of 2 * frame_size bytes (section 4.2,             *)
(* FrameAssembler).                                                        *)
(***************************************************************************)
\* FrameBuffer(capacity, frame_size): a zeroed ring, nothing written yet.
FrameBuffer(capacity, frame_size) ==
    [buffer     |-> [p \in 0..(capacity - 1) |-> 0],
     highest    |-> 0,
     frame_size |-> frame_size,
     capacity   |-> capacity]

DeclaredOffset(seqn, msg) == (seqn - 1) * Len(msg)

\* The ring after the payload is copied at its declared offset, wrapping.
WriteRing(f, off, msg) ==
    [p \in 0..(f.capacity - 1) |->
        IF \E i \in 1..Len(msg) : (off + i - 1) % f.capacity = p
        THEN msg[CHOOSE i \in 1..Len(msg) : (off + i - 1) % f.capacity = p]
        ELSE f.buffer[p]]

\* The bytes of window w, copied out of the ring.
CopyWindow(f, buffer, w) ==
    [i \in 1..f.frame_size |-> buffer[(w * f.frame_size + i - 1) % f.capacity]]

\* Faulty variant of ClearWindow: the window keeps its bytes.
ClearWindowKeeps(f, buffer, w) == buffer

\* The ring with the half of window w zeroed for its next use.
ClearWindow(f, buffer, w) ==
    [p \in 0..(f.capacity - 1) |->
        IF \E i \in 1..f.frame_size : (w * f.frame_size + i - 1) % f.capacity = p
        THEN 0 ELSE buffer[p]]

\* Faulty variant of add_msg: the payload is written where the last one ended,
\* whatever its sequence number.
AddMsgInArrivalOrder(f, seqn, msg) ==
    LET off     == f.highest
        written == WriteRing(f, off, msg)
        high    == off + Len(msg)
        w       == f.highest \div f.frame_size
        crossed == (high \div f.frame_size) > w
    IN  IF crossed
        THEN [fb         |-> [f EXCEPT !.buffer = ClearWindow(f, written, w),
                                       !.highest = high],
              frame_data |-> CopyWindow(f, written, w),
              new_frame  |-> TRUE]
        ELSE [fb         |-> [f EXCEPT !.buffer = written, !.highest = high],
              frame_data |-> <<>>,
              new_frame  |-> FALSE]

\* Faulty variant of add_msg: a stale datagram is written like any other.
AddMsgKeepsStale(f, seqn, msg) ==
    LET off     == DeclaredOffset(seqn, msg)
        written == WriteRing(f, off, msg)
        high    == Max(f.highest, off + Len(msg))
        w       == f.highest \div f.frame_size
        crossed == (high \div f.frame_size) > w
    IN  IF crossed
        THEN [fb         |-> [f EXCEPT !.buffer = ClearWindow(f, written, w),
                                       !.highest = high],
              frame_data |-> CopyWindow(f, written, w),
              new_frame  |-> TRUE]
        ELSE [fb         |-> [f EXCEPT !.buffer = written, !.highest = high],
              frame_data |-> <<>>,
              new_frame  |-> FALSE]

\* Faulty variant of add_msg: the cursor counts the bytes received instead of
\* following the highest declared offset.
AddMsgCountsBytes(f, seqn, msg) ==
    LET off     == DeclaredOffset(seqn, msg)
        stale   == off + f.capacity < f.highest
        written == WriteRing(f, off, msg)
        high    == f.highest + Len(msg)
        w       == f.highest \div f.frame_size
        crossed == (high \div f.frame_size) > w
    IN  IF stale
        THEN [fb |-> f, frame_data |-> <<>>, new_frame |-> FALSE]
        ELSE IF crossed
        THEN [fb         |-> [f EXCEPT !.buffer = ClearWindow(f, written, w),
                                       !.highest = high],
              frame_data |-> CopyWindow(f, written, w),
              new_frame  |-> TRUE]
        ELSE [fb         |-> [f EXCEPT !.buffer = written, !.highest = high],
              frame_data |-> <<>>,
              new_frame  |-> FALSE]

\* Faulty variant of add_msg: the cursor follows the last datagram written,
\* also backwards, and a window is emitted whenever the cursor changes window.
AddMsgCursorFollows(f, seqn, msg) ==
    LET off     == DeclaredOffset(seqn, msg)
        stale   == off + f.capacity < f.highest
        written == WriteRing(f, off, msg)
        high    == off + Len(msg)
        w       == f.highest \div f.frame_size
        crossed == (high \div f.frame_size) # w
    IN  IF stale
        THEN [fb |-> f, frame_data |-> <<>>, new_frame |-> FALSE]
        ELSE IF crossed
        THEN [fb         |-> [f EXCEPT !.buffer = ClearWindow(f, written, w),
                                       !.highest = high],
              frame_data |-> CopyWindow(f, written, w),
              new_frame  |-> TRUE]
        ELSE [fb         |-> [f EXCEPT !.buffer = written, !.highest = high],
              frame_data |-> <<>>,
              new_frame  |-> FALSE]

\* ingest: (frame_data, new_frame) and the assembler's next state.
add_msg(f, seqn, msg) ==
    LET off     == DeclaredOffset(seqn, msg)
        stale   == off + f.capacity < f.highest
        written == WriteRing(f, off, msg)
        high    == Max(f.highest, off + Len(msg))
        w       == f.highest \div f.frame_size
        crossed == (high \div f.frame_size) > w
    IN  IF stale
        THEN [fb |-> f, frame_data |-> <<>>, new_frame |-> FALSE]
        ELSE IF crossed
        THEN [fb         |-> [f EXCEPT !.buffer = ClearWindow(f, written, w),
                                       !.highest = high],
              frame_data |-> CopyWindow(f, written, w),
              new_frame  |-> TRUE]
        ELSE [fb         |-> [f EXCEPT !.buffer = written, !.highest = high],
              frame_data |-> <<>>,
              new_frame  |-> FALSE]

(***************************************************************************)
(* DCAPub                                                                  *)
(***************************************************************************)
\* dcapub.py lines 79-81: FrameBuffer(2 * frame_size, frame_size)
NewFrameBuffer(frame_size) == FrameBuffer(2 * frame_size, frame_size)

(***************************************************************************)
(* DCAPub.update_frame_buffer: one datagram read and ingested.             *)
(***************************************************************************)
\* Faulty variant of update_frame_buffer: the byte count of the datagram is
\* passed where add_msg expects its sequence number.
UpdateFrameBufferByteCount(q, f) ==
    LET d == recv_data(q)
    IN  add_msg(f, d.bytec, d.msg)

update_frame_buffer(q, f) ==
    LET d == recv_data(q)
    IN  add_msg(f, d.seqn, d.msg)

(***************************************************************************)
(* Radar.run_polling                                                       *)
(***************************************************************************)
\* Faulty variant of LoopCondition: the bound is tested with <=.
LoopConditionOffByOne(fs, n) == Len(fs) <= n

\* line 65: while len(frames) < self.params['n_frames']
LoopCondition(fs, n) == Len(fs) < n

\* Faulty variant of IsFirstFrame: the timestamp is taken on every new frame.
IsFirstFrameEveryFrame(new_frame, fs) == new_frame

\* line 67: if new_frame and len(frames) == 0
IsFirstFrame(new_frame, fs) == new_frame /\ Len(fs) = 0

Init ==
    /\ pc = "Idle"
    /\ n_frames \in 0..MaxFrames
    /\ frames = <<>>
    /\ capture_start_time = None
    /\ datetime_start_time = None
    /\ now = 0
    /\ sockq \in {<<>>, <<Residual>>}
    /\ sent = 0
    /\ fb \in {NewFrameBuffer(s) : s \in FrameSizes}
    /\ closes = 0
    /\ exc = "none"
    /\ disk = [dir |-> FALSE, bin |-> <<>>, meta |-> <<>>]
    /\ flushes = 0
    /\ recvs = 0
    /\ staleIn = FALSE
    /\ discarded = 0
    /\ timeouts = 0
    /\ errors = 0
    /\ intrAt = "none"
    /\ lastFrameTime = 0
    /\ returned = NoReturn
    /\ second = FALSE
    /\ reshape = TRUE
    /\ report = [actual |-> RequestedSize, requested |-> RequestedSize, warned |-> FALSE]
    /\ rcvbuf = RequestedSize
    /\ os = AcceptingOS
    /\ sock = "open"
    /\ emittedAt = <<>>
    /\ fed = <<>>
    /\ reordered = FALSE
    /\ emitted = <<>>
    /\ saves = 0
    /\ firstAt = None

\* lines 53-54: run_polling is entered.
Start ==
    /\ pc = "Idle"
    /\ pc' = "Flushing"
    /\ lastFrameTime' = now
    /\ UNCHANGED <<n_frames, frames, capture_start_time, datetime_start_time, now,
                   sockq, sent, fb, closes, exc, disk, flushes, recvs, staleIn,
                   discarded, timeouts, errors, intrAt, firstAt, saves, emitted, reordered, fed, emittedAt, sock, os, rcvbuf, report, reshape, second, returned>>

\* Faulty variant of Flush: the call of flush_data_socket is left out.
FlushLeftOut ==
    /\ pc = "Flushing"
    /\ frames' = <<>>
    /\ pc' = "Collecting"
    /\ UNCHANGED <<n_frames, capture_start_time, datetime_start_time, now, sockq,
                   sent, fb, closes, exc, disk, flushes, recvs, staleIn,
                   lastFrameTime, discarded, timeouts, errors, intrAt, firstAt, saves, emitted, reordered, fed, emittedAt, sock, os, rcvbuf, report, reshape, second, returned>>

\* lines 55-63: the data socket is flushed, frames = [].
Flush ==
    /\ pc = "Flushing"
    /\ sockq' = flush_data_socket(sockq)
    /\ flushes' = flushes + 1
    /\ frames' = <<>>
    /\ pc' = "Collecting"
    /\ discarded' = Len(sockq)
    /\ UNCHANGED <<n_frames, capture_start_time, datetime_start_time, now, sent, fb,
                   closes, exc, disk, recvs, staleIn, lastFrameTime,
                   timeouts, errors, intrAt, firstAt, saves, emitted, reordered, fed, emittedAt, sock, os, rcvbuf, report, reshape, second, returned>>

\* Faulty variant of Iterate: what add_msg returns is appended whether or not
\* it is a new frame.
IterateAppendsAlways ==
    /\ pc = "Collecting"
    /\ LoopCondition(frames, n_frames)
    /\ sockq # <<>>
    /\ LET r == update_frame_buffer(sockq, fb)
           d == recv_data(sockq)
       IN  /\ sockq' = Tail(sockq)
           /\ fb' = r.fb
           /\ recvs' = recvs + 1
           /\ staleIn' = (staleIn \/ d.pre)
           /\ IF IsFirstFrame(r.new_frame, frames)
              THEN /\ datetime_start_time' = now
                   /\ capture_start_time' = now
              ELSE UNCHANGED <<datetime_start_time, capture_start_time>>
           /\ frames' = Append(frames, r.frame_data)
           /\ lastFrameTime' = now
           /\ emitted' = IF r.new_frame THEN Append(emitted, r.frame_data) ELSE emitted
           /\ firstAt' = IF r.new_frame /\ firstAt = None THEN now ELSE firstAt
           /\ reordered' = (reordered \/ d.seqn * Len(d.msg) <= fb.highest)
           /\ fed' = Append(fed, d)
           /\ emittedAt' = IF r.new_frame THEN Append(emittedAt, recvs + 1) ELSE emittedAt
    /\ UNCHANGED <<pc, n_frames, now, sent, closes, exc, disk, flushes,
                   discarded, timeouts, errors, intrAt, saves, sock, os, rcvbuf, report, reshape, second, returned>>

\* lines 65-73: one iteration of the loop in which recv_data returns a datagram.
Iterate ==
    /\ pc = "Collecting"
    /\ LoopCondition(frames, n_frames)
    /\ sockq # <<>>
    /\ LET r == update_frame_buffer(sockq, fb)
           d == recv_data(sockq)
       IN  /\ sockq' = Tail(sockq)
           /\ fb' = r.fb
           /\ recvs' = recvs + 1
           /\ staleIn' = (staleIn \/ d.pre)
           /\ IF IsFirstFrame(r.new_frame, frames)
              THEN /\ datetime_start_time' = now
                   /\ capture_start_time' = now
              ELSE UNCHANGED <<datetime_start_time, capture_start_time>>
           /\ IF r.new_frame
              THEN /\ frames' = Append(frames, r.frame_data)
                   /\ lastFrameTime' = now
              ELSE UNCHANGED <<frames, lastFrameTime>>
           /\ emitted' = IF r.new_frame THEN Append(emitted, r.frame_data) ELSE emitted
           /\ firstAt' = IF r.new_frame /\ firstAt = None THEN now ELSE firstAt
           /\ reordered' = (reordered \/ d.seqn * Len(d.msg) <= fb.highest)
           /\ fed' = Append(fed, d)
           /\ emittedAt' = IF r.new_frame THEN Append(emittedAt, recvs + 1) ELSE emittedAt
    /\ UNCHANGED <<pc, n_frames, now, sent, closes, exc, disk, flushes,
                   discarded, timeouts, errors, intrAt, saves, sock, os, rcvbuf, report, reshape, second, returned>>

\* Faulty variant of RecvTimeout: the timeout is caught and ends the loop, so that
\* save_frames is called with what was collected.
RecvTimeoutSaves ==
    /\ pc = "Collecting"
    /\ LoopCondition(frames, n_frames)
    /\ sockq = <<>>
    /\ now' = Min(now + SocketTimeout, MaxTime)
    /\ pc' = "Completed"
    /\ timeouts' = timeouts + 1
    /\ UNCHANGED <<n_frames, frames, capture_start_time, datetime_start_time, sockq,
                   sent, fb, closes, exc, disk, flushes, recvs, staleIn,
                   lastFrameTime, discarded, errors, intrAt, firstAt, saves, emitted, reordered, fed, emittedAt, sock, os, rcvbuf, report, reshape, second, returned>>

\* dcapub.py lines 86-89 and radar.py line 78: socket.timeout is re-raised by
\* update_frame_buffer and is not a KeyboardInterrupt, so it leaves run_polling.
\* The blocked read lasted SocketTimeout ticks (the clock stops at MaxTime).
RecvTimeout ==
    /\ pc = "Collecting"
    /\ LoopCondition(frames, n_frames)
    /\ sockq = <<>>
    /\ now' = Min(now + SocketTimeout, MaxTime)
    /\ pc' = "Raised"
    /\ exc' = "Timeout"
    /\ timeouts' = timeouts + 1
    /\ UNCHANGED <<n_frames, frames, capture_start_time, datetime_start_time, sockq,
                   sent, fb, closes, disk, flushes, recvs, staleIn, lastFrameTime,
                   discarded, errors, intrAt, firstAt, saves, emitted, reordered, fed, emittedAt, sock, os, rcvbuf, report, reshape, second, returned>>

\* Faulty variant of RecvError: the failure is swallowed and the loop goes on.
RecvErrorSwallowed ==
    /\ pc = "Collecting"
    /\ LoopCondition(frames, n_frames)
    /\ errors = 0
    /\ errors' = errors + 1
    /\ UNCHANGED <<pc, n_frames, frames, capture_start_time, datetime_start_time, now,
                   sockq, sent, fb, closes, exc, disk, flushes, recvs, staleIn,
                   lastFrameTime, discarded, timeouts, intrAt, firstAt, saves, emitted, reordered, fed, emittedAt, sock, os, rcvbuf, report, reshape, second, returned>>

\* line 66 and line 78: any other failure of recv_data (the socket was closed,
\* an OSError) leaves run_polling as well.
RecvError ==
    /\ pc = "Collecting"
    /\ LoopCondition(frames, n_frames)
    /\ pc' = "Raised"
    /\ exc' = "OSError"
    /\ errors' = errors + 1
    /\ UNCHANGED <<n_frames, frames, capture_start_time, datetime_start_time, now,
                   sockq, sent, fb, closes, disk, flushes, recvs, staleIn, lastFrameTime,
                   discarded, timeouts, intrAt, firstAt, saves, emitted, reordered, fed, emittedAt, sock, os, rcvbuf, report, reshape, second, returned>>

\* line 65 is false: the loop is left and save_frames is called (line 76).
LoopExit ==
    /\ pc = "Collecting"
    /\ ~LoopCondition(frames, n_frames)
    /\ pc' = "Completed"
    /\ UNCHANGED <<n_frames, frames, capture_start_time, datetime_start_time, now,
                   sockq, sent, fb, closes, exc, disk, flushes, recvs, staleIn,
                   lastFrameTime,
                   discarded, timeouts, errors, intrAt, firstAt, saves, emitted, reordered, fed, emittedAt, sock, os, rcvbuf, report, reshape, second, returned>>

(***************************************************************************)
(* Radar.save_frames, entered from line 76 of run_polling.                 *)
(***************************************************************************)
\* Faulty variant of Metadata: the record is stamped with the time of writing.
MetadataAtSaveTime(fs, dst, cst) ==
    [capture_start_time |-> now,
     timestamp_compact  |-> now,
     datetime_strftime  |-> dst,
     num_frames         |-> Len(fs)]

\* lines 127-138: the metadata record (the fields the session decides).
Metadata(fs, dst, cst) ==
    [capture_start_time |-> cst,
     timestamp_compact  |-> cst,
     datetime_strftime  |-> dst,
     num_frames         |-> Len(fs)]

\* lines 91-117: the folder is created, the frames are concatenated and the
\* timestamp is formatted. np.concatenate raises ValueError on an empty list.
SavePrepare ==
    /\ pc = "Completed"
    /\ disk' = [disk EXCEPT !.dir = TRUE]
    /\ IF frames = <<>>
       THEN pc' = "Raised" /\ exc' = "ValueError"
       ELSE pc' = "SaveBin" /\ exc' = exc
    /\ saves' = saves + 1
    /\ UNCHANGED <<n_frames, frames, capture_start_time, datetime_start_time, now,
                   sockq, sent, fb, closes, flushes, recvs, staleIn, lastFrameTime,
                   discarded, timeouts, errors, intrAt, firstAt, emitted, reordered, fed, emittedAt, sock, os, rcvbuf, report, reshape, second, returned>>

\* lines 119-123: adc_data<timestamp>.bin is written.
SaveBin ==
    /\ pc = "SaveBin"
    /\ disk' = [disk EXCEPT !.bin = <<AsInt16(Concat(frames))>>]
    /\ pc' = "SaveMeta"
    /\ UNCHANGED <<n_frames, frames, capture_start_time, datetime_start_time, now,
                   sockq, sent, fb, closes, exc, flushes, recvs, staleIn, lastFrameTime,
                   discarded, timeouts, errors, intrAt, firstAt, saves, emitted, reordered, fed, emittedAt, sock, os, rcvbuf, report, reshape, second, returned>>

\* Faulty variant of SaveMeta: after writing, the session goes back to collect
\* and write again.
SaveMetaThenAgain ==
    /\ pc = "SaveMeta"
    /\ disk' = [disk EXCEPT !.meta =
                   <<Metadata(frames, datetime_start_time, capture_start_time)>>]
    /\ pc' = IF saves < 2 THEN "Collecting" ELSE "Saved"
    /\ frames' = IF saves < 2 THEN <<>> ELSE frames
    /\ UNCHANGED <<n_frames, capture_start_time, datetime_start_time, now,
                   sockq, sent, fb, closes, exc, flushes, recvs, staleIn, lastFrameTime,
                   discarded, timeouts, errors, intrAt, firstAt, saves, emitted, reordered, fed, emittedAt, sock, os, rcvbuf, report, reshape, second, returned>>

\* lines 126-143 and line 77: metadata.json is written, run_polling returns.
SaveMeta ==
    /\ pc = "SaveMeta"
    /\ disk' = [disk EXCEPT !.meta =
                   <<Metadata(frames, datetime_start_time, capture_start_time)>>]
    /\ pc' = "Saved"
    /\ UNCHANGED <<n_frames, frames, capture_start_time, datetime_start_time, now,
                   sockq, sent, fb, closes, exc, flushes, recvs, staleIn, lastFrameTime,
                   discarded, timeouts, errors, intrAt, firstAt, saves, emitted, reordered, fed, emittedAt, sock, os, rcvbuf, report, reshape, second, returned>>

(***************************************************************************)
(* The operator's interrupt.                                               *)
(***************************************************************************)
\* Faulty variant of KeyboardInterrupt: the signal is noted and the session
\* goes on where it was.
KeyboardInterruptIgnored ==
    /\ pc \in {"Collecting", "Completed", "SaveBin", "SaveMeta"}
    /\ intrAt = "none"
    /\ intrAt' = pc
    /\ UNCHANGED <<pc, n_frames, frames, capture_start_time, datetime_start_time, now,
                   sockq, sent, fb, closes, exc, disk, flushes, recvs, staleIn,
                   lastFrameTime, discarded, timeouts, errors, firstAt, saves, emitted,
                   reordered, fed, emittedAt, sock, os, rcvbuf, report, reshape, second, returned>>

\* lines 78-80 and 230-236: a KeyboardInterrupt raised inside the try block
\* (the loop or save_frames) is caught; the handler closes the socket and
\* run_polling returns. Nothing is saved by the handler.
KeyboardInterrupt ==
    /\ pc \in {"Collecting", "Completed", "SaveBin", "SaveMeta"}
    /\ closes' = closes + 1
    /\ pc' = "Stopped"
    /\ intrAt' = pc
    /\ sock' = close(sock)
    /\ UNCHANGED <<n_frames, frames, capture_start_time, datetime_start_time, now,
                   sockq, sent, fb, exc, disk, flushes, recvs, staleIn, lastFrameTime,
                   discarded, timeouts, errors, firstAt, saves, emitted, reordered, fed, emittedAt, os, rcvbuf, report, reshape, second, returned>>

\* line 55 is outside the try block: an interrupt during the flush leaves
\* run_polling uncaught.
InterruptOutsideTry ==
    /\ pc = "Flushing"
    /\ pc' = "Raised"
    /\ exc' = "KeyboardInterrupt"
    /\ intrAt' = pc
    /\ UNCHANGED <<n_frames, frames, capture_start_time, datetime_start_time, now,
                   sockq, sent, fb, closes, disk, flushes, recvs, staleIn, lastFrameTime,
                   discarded, timeouts, errors, firstAt, saves, emitted, reordered, fed, emittedAt, sock, os, rcvbuf, report, reshape, second, returned>>

\* Faulty variant of RadarClose: closing a closed socket is an error.
RadarCloseRaisesWhenClosed ==
    /\ pc \in {"Saved", "Stopped", "Raised"}
    /\ closes < MaxCloses
    /\ closes' = closes + 1
    /\ sock' = close(sock)
    /\ IF sock = "closed"
       THEN pc' = "Raised" /\ exc' = "OSError"
       ELSE UNCHANGED <<pc, exc>>
    /\ UNCHANGED <<n_frames, frames, capture_start_time, datetime_start_time, now,
                   sockq, sent, fb, disk, flushes, recvs, staleIn, lastFrameTime,
                   discarded, timeouts, errors, intrAt, firstAt, saves, emitted,
                   reordered, fed, emittedAt, os, rcvbuf, report, reshape, second, returned>>

\* radar.py lines 230-236: the caller calls Radar.close() once run_polling is
\* over, whether or not the interrupt handler has called it already.
RadarClose ==
    /\ pc \in {"Saved", "Stopped", "Raised"}
    /\ closes < MaxCloses
    /\ closes' = closes + 1
    /\ sock' = close(sock)
    /\ UNCHANGED <<pc, n_frames, frames, capture_start_time, datetime_start_time, now,
                   sockq, sent, fb, exc, disk, flushes, recvs, staleIn, lastFrameTime,
                   discarded, timeouts, errors, intrAt, firstAt, saves, emitted,
                   reordered, fed, emittedAt, os, rcvbuf, report, reshape, second, returned>>

(***************************************************************************)
(* The environment: the capture card, the network and the clock.           *)
(***************************************************************************)
\* The next packet of the stream reaches the socket buffer.
Arrive ==
    /\ sent < MaxSent
    /\ Len(sockq) < MaxQueue
    /\ sent' = sent + 1
    /\ sockq' = Append(sockq, Packet(sent + 1, flushes = 0))
    /\ UNCHANGED <<pc, n_frames, frames, capture_start_time, datetime_start_time, now,
                   fb, closes, exc, disk, flushes, recvs, staleIn,                    lastFrameTime,
                   discarded, timeouts, errors, intrAt, firstAt, saves, emitted, reordered, fed, emittedAt, sock, os, rcvbuf, report, reshape, second, returned>>

\* The next packet of the stream overtakes the last one queued.
ArriveOvertaking ==
    /\ sent < MaxSent
    /\ Len(sockq) \in 1..(MaxQueue - 1)
    /\ sent' = sent + 1
    /\ sockq' = Append(SubSeq(sockq, 1, Len(sockq) - 1), Packet(sent + 1, flushes = 0))
                    \o <<sockq[Len(sockq)]>>
    /\ UNCHANGED <<pc, n_frames, frames, capture_start_time, datetime_start_time, now,
                   fb, closes, exc, disk, flushes, recvs, staleIn, lastFrameTime,
                   discarded, timeouts, errors, intrAt, firstAt, saves, emitted, reordered, fed, emittedAt, sock, os, rcvbuf, report, reshape, second, returned>>

\* The next packet of the stream is lost on the way.
Lose ==
    /\ sent < MaxSent
    /\ sent' = sent + 1
    /\ UNCHANGED <<pc, n_frames, frames, capture_start_time, datetime_start_time, now,
                   sockq, fb, closes, exc, disk, flushes, recvs, staleIn,                    lastFrameTime,
                   discarded, timeouts, errors, intrAt, firstAt, saves, emitted, reordered, fed, emittedAt, sock, os, rcvbuf, report, reshape, second, returned>>

\* Time passes.
Tick ==
    /\ now < MaxTime
    /\ now' = now + 1
    /\ UNCHANGED <<pc, n_frames, frames, capture_start_time, datetime_start_time,
                   sockq, sent, fb, closes, exc, disk, flushes, recvs, staleIn,
                   lastFrameTime,
                   discarded, timeouts, errors, intrAt, firstAt, saves, emitted, reordered, fed, emittedAt, sock, os, rcvbuf, report, reshape, second, returned>>

Next ==
    \/ Start
    \/ Flush
    \/ Iterate
    \/ RecvTimeout
    \/ RecvError
    \/ LoopExit
    \/ SavePrepare
    \/ SaveBin
    \/ SaveMeta
    \/ KeyboardInterrupt
    \/ InterruptOutsideTry
    \/ RadarClose
    \/ Arrive
    \/ ArriveOvertaking
    \/ Lose
    \/ Tick

Spec == Init /\ [][Next]_vars

\* run_polling keeps running, and a read on an empty socket buffer returns
\* after the read timeout.
LiveSpec ==
    /\ Init
    /\ [][Next]_vars
    /\ WF_vars(Start) /\ WF_vars(Flush) /\ WF_vars(Iterate) /\ WF_vars(RecvTimeout)
    /\ WF_vars(LoopExit) /\ WF_vars(SavePrepare) /\ WF_vars(SaveBin) /\ WF_vars(SaveMeta)

(***************************************************************************)
(* The session state of section 4.3, read off the position of run_polling. *)
(* An exception that leaves run_polling is the error abort; the return     *)
(* through the interrupt handler is the abort on a stop signal.            *)
(***************************************************************************)
SessionState ==
    CASE pc = "Idle"       -> "Idle"
      [] pc = "Flushing"   -> "Flushing"
      [] pc = "Collecting" -> "Collecting"
      [] pc \in {"Completed", "SaveBin", "SaveMeta", "Saved"} -> "Completed"
      [] pc = "Stopped"    -> "StalledAbort"
      [] pc = "Raised"     -> "ErrorAbort"

\* run_polling has returned or raised.
Ended == pc \in {"Saved", "Stopped", "Raised"}

(***************************************************************************)
(* Claims.                                                                 *)
(***************************************************************************)

\* C1: capture_start_time is unset exactly as long as no frame has been
\* appended, it is set to the wall clock by the step that appends the first
\* frame, and once set no later step changes it.
C1_FirstFrameLatchedOnce ==
    /\ []((frames = <<>>) <=> (capture_start_time = None))
    /\ [][/\ (frames = <<>> /\ frames' # <<>>) => capture_start_time' = now
          /\ capture_start_time # None => capture_start_time' = capture_start_time]_vars

\* C1 witness: a second frame was appended later than the first one.
C1_Witness ==
    /\ Len(frames) = 2
    /\ capture_start_time # None
    /\ lastFrameTime > capture_start_time

\* C2: never more than n_frames frames; save_frames is entered only with
\* exactly n_frames frames; and once the count is reached the loop reads and
\* ingests nothing more and can only leave to Completed (or be interrupted).
C2_CompletesExactlyAtTarget ==
    /\ [](Len(frames) <= n_frames)
    /\ [](SessionState = "Completed" => Len(frames) = n_frames)
    /\ [][Len(frames) >= n_frames =>
             /\ recvs' = recvs /\ timeouts' = timeouts /\ errors' = errors
             /\ fb' = fb /\ frames' = frames
             /\ (pc = "Collecting" /\ pc' # pc) => pc' \in {"Completed", "Stopped"}]_vars

\* C2 witness: the target was reached while a datagram was still queued.
C2_Witness ==
    /\ pc = "Completed"
    /\ n_frames = 2
    /\ Len(frames) = n_frames
    /\ sockq # <<>>

\* C3: a Timeout of recv_data while less than StallTimeout has passed since
\* the last frame (or since the session start) leaves the session in
\* Collecting, with frames, capture_start_time and the ring unchanged.
C3_TimeoutInsideStallWindowKeepsCollecting ==
    [][(timeouts' = timeouts + 1 /\ now' - lastFrameTime < StallTimeout) =>
          /\ SessionState' = "Collecting"
          /\ frames' = frames
          /\ capture_start_time' = capture_start_time
          /\ fb' = fb]_vars

\* C4: after k frames (0 < k < n_frames), a Timeout of recv_data at least
\* StallTimeout after the last frame finds the session on its way to
\* StalledAbort and in no other final state, still holding the k frames.
C4_StallEndsInStalledAbort ==
    (/\ timeouts > 0
     /\ 0 < Len(frames) /\ Len(frames) < n_frames
     /\ now - lastFrameTime >= StallTimeout)
    => SessionState \in {"Collecting", "StalledAbort"}

\* The artifact written for the frames fs: the .bin file and metadata.json.
Persisted(fs) ==
    /\ disk.bin = <<AsInt16(Concat(fs))>>
    /\ disk.meta # <<>>
    /\ disk.meta[1].num_frames = Len(fs)

\* C5: a session that has ended in Completed, or in StalledAbort with at
\* least one frame, has written an artifact holding every collected frame.
C5_EndedWithFramesIsPersisted ==
    (/\ Ended
     /\ SessionState \in {"Completed", "StalledAbort"}
     /\ Len(frames) >= 1)
    => Persisted(frames)

\* Nothing has been written by save_frames.
NothingWritten == disk = [dir |-> FALSE, bin |-> <<>>, meta |-> <<>>]

C7_StopSignalPersistsFrames ==
    (Ended /\ intrAt = "Collecting") => (frames = <<>> \/ Persisted(frames))

\* C8: however the loop was left, the session is in ErrorAbort only after
\* close() was attempted.
C8_ErrorAbortHasClosed ==
    (SessionState = "ErrorAbort" /\ flushes = 1) => closes >= 1

\* C9: after a failure of recv_data other than a timeout the session is in
\* ErrorAbort, with that failure surfaced and nothing saved after it.
C9_IoFailureIsErrorAbort ==
    errors > 0 => (SessionState = "ErrorAbort" /\ exc = "OSError" /\ disk.bin = <<>>)

\* C9 witness: recv_data failed after a frame had been collected.
C9_Witness ==
    /\ errors > 0
    /\ Len(frames) = 1
    /\ n_frames = 2

\* C10: flush_data_socket is called at most once, it has been called before
\* recv_data is called for the first time, and no datagram that was queued
\* before the flush is ever ingested.
C10_FlushOnceBeforeFirstRead ==
    /\ flushes <= 1
    /\ (pc \notin {"Idle", "Flushing"} /\ intrAt # "Flushing") => flushes = 1
    /\ (recvs + timeouts + errors > 0) => flushes = 1
    /\ ~staleIn
    /\ \A i \in 1..Len(sockq) : flushes = 1 => ~sockq[i].pre

\* C10 witness: the flush discarded queued datagrams and the session went on
\* to read fresh ones.
C10_Witness ==
    /\ discarded >= 1
    /\ recvs >= 1
    /\ frames # <<>>

\* The transitions of the state machine of section 4.3.
SpecTransitions ==
    {<<"Idle", "Flushing">>, <<"Flushing", "Collecting">>,
     <<"Collecting", "Completed">>, <<"Collecting", "StalledAbort">>,
     <<"Collecting", "ErrorAbort">>}

FinalStates == {"Completed", "StalledAbort", "ErrorAbort"}

\* C11: the session state changes only along Idle -> Flushing -> Collecting
\* -> {Completed, StalledAbort, ErrorAbort}; a final state is never left, and
\* in a final state nothing is read or ingested and frames does not change.
C11_OnlySpecTransitions ==
    [][/\ SessionState' # SessionState =>
             <<SessionState, SessionState'>> \in SpecTransitions
       /\ SessionState \in FinalStates =>
             /\ SessionState' = SessionState
             /\ recvs' = recvs /\ timeouts' = timeouts /\ errors' = errors
             /\ fb' = fb /\ frames' = frames]_vars

\* C12: the bytes written are the collected frames one after the other in the
\* order they were completed: the i-th completed frame fills the i-th
\* frame-sized stretch of the file, also when datagrams arrived out of order.
C12_BinIsFramesInCompletionOrder ==
    /\ frames = emitted
    /\ disk.bin # <<>> =>
          \A i \in 1..Len(emitted) : \A k \in 1..fb.frame_size :
              LET pos == (i - 1) * fb.frame_size + k
              IN  pos <= Len(disk.bin[1]) /\ disk.bin[1][pos] = emitted[i][k]

\* Two different frames were written in a session whose datagrams arrived
\* out of order.
C12_Witness ==
    /\ disk.bin # <<>>
    /\ reordered
    /\ Len(emitted) = 2
    /\ emitted[1] # emitted[2]

C14_StartTimeIsFirstFrameTime ==
    disk.meta # <<>> =>
        /\ firstAt # None
        /\ disk.meta[1].capture_start_time = firstAt

\* Metadata is written in a session whose start, first frame, last frame and
\* end all happened at different times.
C14_Witness ==
    /\ disk.meta # <<>>
    /\ 0 < firstAt
    /\ firstAt < lastFrameTime
    /\ lastFrameTime < now

\* C15: the capture is written at most once, and once the metadata is written
\* no step changes the written files, the collected frames or the latched
\* timestamps.
C15_WrittenOnceThenFixed ==
    [][/\ saves' <= 1
       /\ disk.meta # <<>> =>
             /\ disk' = disk
             /\ frames' = frames
             /\ capture_start_time' = capture_start_time
             /\ datetime_start_time' = datetime_start_time]_vars

\* The capture was written and the world moved on afterwards.
C15_Witness ==
    /\ pc = "Saved"
    /\ saves = 1
    /\ disk.meta # <<>>
    /\ now > lastFrameTime
    /\ sockq # <<>>

\* C16: a session that ended on a stall (a read timeout at least StallTimeout
\* after the last frame) holding k frames, 0 < k < n_frames, has written
\* metadata with num_frames = k.
C16_StallWritesCollectedCount ==
    (/\ Ended
     /\ timeouts > 0
     /\ now - lastFrameTime >= StallTimeout
     /\ 0 < Len(frames) /\ Len(frames) < n_frames)
    => /\ disk.meta # <<>>
       /\ disk.meta[1].num_frames = Len(frames)

\* C17: a read that completes no frame when no frame has been completed for
\* StallTimeout or longer ends the collection.
C17_StallAbortsDespiteDatagrams ==
    [][(/\ pc = "Collecting"
        /\ now - lastFrameTime >= StallTimeout
        /\ recvs' = recvs + 1
        /\ frames' = frames)
       => SessionState' # "Collecting"]_vars

(***************************************************************************)
(* The assembler on its own: DCAPub.update_frame_buffer applied to every   *)
(* datagram sequence up to MaxInput, for every frame size made of          *)
(* 2..MaxPacketsPerFrame payloads of 1..MaxPayload elements.               *)
(***************************************************************************)
MaxInput == 5
\* longest datagram sequence

MaxSeqn == 6
\* largest sequence number of a datagram

MaxPayload == 2
\* largest payload of a datagram, in elements

MaxPacketsPerFrame == 3
\* most datagrams a frame is made of

\* The datagram with sequence number s of a stream of n-element payloads.
StreamPacket(s, n) ==
    [seqn  |-> s,
     bytec |-> (s - 1) * n,
     msg   |-> [i \in 1..n |-> StreamByte((s - 1) * n + i - 1)],
     pre   |-> FALSE]

\* All sequences of at most MaxInput sequence numbers.
SeqnLists == UNION {[1..l -> 1..MaxSeqn] : l \in 0..MaxInput}

AsmInit ==
    /\ pc = "Ingesting"
    /\ \E m \in 2..MaxPacketsPerFrame : \E n \in 1..MaxPayload : \E ss \in SeqnLists :
          /\ fb = NewFrameBuffer(m * n)
          /\ sockq = [i \in 1..Len(ss) |-> StreamPacket(ss[i], n)]
    /\ n_frames = 0
    /\ frames = <<>>
    /\ capture_start_time = None
    /\ datetime_start_time = None
    /\ now = 0
    /\ sent = 0
    /\ closes = 0
    /\ exc = "none"
    /\ disk = [dir |-> FALSE, bin |-> <<>>, meta |-> <<>>]
    /\ flushes = 0
    /\ recvs = 0
    /\ staleIn = FALSE
    /\ discarded = 0
    /\ timeouts = 0
    /\ errors = 0
    /\ intrAt = "none"
    /\ firstAt = None
    /\ saves = 0
    /\ emitted = <<>>
    /\ reordered = FALSE
    /\ fed = <<>>
    /\ emittedAt = <<>>
    /\ reshape = TRUE
    /\ second = FALSE
    /\ returned = NoReturn
    /\ sock = "open"
    /\ os = AcceptingOS
    /\ rcvbuf = RequestedSize
    /\ report = [actual |-> RequestedSize, requested |-> RequestedSize, warned |-> FALSE]
    /\ lastFrameTime = 0

\* dcapub.py lines 83-92: one call of update_frame_buffer.
AsmIngest ==
    /\ pc = "Ingesting"
    /\ sockq # <<>>
    /\ LET r == update_frame_buffer(sockq, fb)
           d == recv_data(sockq)
       IN  /\ sockq' = Tail(sockq)
           /\ fb' = r.fb
           /\ recvs' = recvs + 1
           /\ emitted' = IF r.new_frame THEN Append(emitted, r.frame_data) ELSE emitted
           /\ emittedAt' = IF r.new_frame THEN Append(emittedAt, recvs + 1) ELSE emittedAt
           /\ reordered' = (reordered \/ d.seqn * Len(d.msg) <= fb.highest)
           /\ fed' = Append(fed, d)
    /\ UNCHANGED <<pc, n_frames, frames, capture_start_time, datetime_start_time, now,
                   sent, closes, exc, disk, flushes, staleIn, discarded, timeouts,
                   errors, intrAt, firstAt, saves, lastFrameTime, sock, os, rcvbuf, report, reshape, second, returned>>

AsmSpec == AsmInit /\ [][AsmIngest]_vars

\* The datagrams ds are numbered 1, 2, ... without a gap and their payloads
\* add up to exactly one frame of size fs.
CoversOneFrameInOrder(ds, fs) ==
    /\ ds # <<>>
    /\ \A i \in 1..Len(ds) : ds[i].seqn = i
    /\ Len(ds) * Len(ds[1].msg) = fs

\* The payloads of ds one after the other.
Payloads(ds) == Concat([i \in 1..Len(ds) |-> ds[i].msg])

\* C18: when the datagrams of exactly one frame have been ingested in order
\* and without a gap, exactly one frame has been emitted, on the last of them,
\* and it is the payloads one after the other.
C18_InOrderFrameEmittedOnce ==
    (sockq = <<>> /\ CoversOneFrameInOrder(fed, fb.frame_size))
    => /\ emitted = <<Payloads(fed)>>
       /\ emittedAt = <<Len(fed)>>

\* A frame of three two-element datagrams was assembled.
C18_Witness ==
    /\ sockq = <<>>
    /\ CoversOneFrameInOrder(fed, fb.frame_size)
    /\ Len(fed) = 3
    /\ emitted = <<<<1, 2, 3, 4, 5, 6>>>>

\* The datagrams ds are 1..K in order with only datagram j missing.
IsStreamWithout(ds, K, j) ==
    /\ Len(ds) = K - 1
    /\ \A i \in 1..(K - 1) : ds[i].seqn = IF i < j THEN i ELSE i + 1

\* The frame of window w of the stream of n-element payloads when datagram j
\* never arrived: zeros in the range of j, the stream's bytes elsewhere.
FrameWithout(f, n, w, j) ==
    [i \in 1..f.frame_size |->
        LET off == w * f.frame_size + i - 1
        IN  IF off \div n = j - 1 THEN 0 ELSE StreamByte(off)]

\* Datagram j of the K sent was dropped, and the stream has moved past the
\* window of j: a later datagram came and the window's last offset was sent.
DroppedAndPassed(K, j) ==
    LET n == Len(fed[1].msg)
        m == fb.frame_size \div n
        w == (j - 1) \div m
    IN  /\ sockq = <<>>
        /\ fed # <<>>
        /\ j < K
        /\ K >= (w + 1) * m
        /\ IsStreamWithout(fed, K, j)

\* C19: when exactly one datagram of the stream was dropped and the stream has
\* moved past its window, every window passed has been emitted; the frame of
\* the dropped datagram's window was emitted on the first datagram reaching or
\* passing the window's end, with zeros in the dropped range and the received
\* payloads elsewhere.
C19_OneDropZeroFilledNoStall ==
    \A K \in 1..MaxSeqn : \A j \in 1..K :
        DroppedAndPassed(K, j) =>
            LET n == Len(fed[1].msg)
                m == fb.frame_size \div n
                w == (j - 1) \div m
            IN  /\ Len(emitted) = K \div m
                /\ emitted[w + 1] = FrameWithout(fb, n, w, j)
                /\ emittedAt[w + 1] = IF j = (w + 1) * m THEN j ELSE (w + 1) * m - 1

\* Datagram 5 of 6 was dropped from the third window, which reuses the ring
\* half of the first: its frame came out zero-filled.
C19_Witness ==
    /\ DroppedAndPassed(6, 5)
    /\ fb.frame_size = 2
    /\ Len(emitted) = 3
    /\ emitted[3] = <<0, 6>>

\* The frames update_frame_buffer returns over the datagrams q, from state f.
RECURSIVE IngestAll(_, _)
IngestAll(f, q) ==
    IF q = <<>>
    THEN <<>>
    ELSE LET r == update_frame_buffer(q, f)
         IN  (IF r.new_frame THEN <<r.frame_data>> ELSE <<>>) \o IngestAll(r.fb, Tail(q))

\* The first K datagrams of the stream of n-element payloads, in order.
Stream(K, n) == [s \in 1..K |-> StreamPacket(s, n)]

\* ds with the datagrams at positions i and i + 1 exchanged.
Swap(ds, i) == [ds EXCEPT ![i] = ds[i + 1], ![i + 1] = ds[i]]

\* The datagrams ingested were the stream 1..K with datagrams i and i + 1,
\* which lie in the same frame window, arriving in exchanged order.
SwappedInWindow(K, i) ==
    /\ sockq = <<>>
    /\ Len(fed) = K
    /\ LET n == Len(fed[1].msg)
           m == fb.frame_size \div n
       IN  /\ (i - 1) \div m = i \div m
           /\ fed = Swap(Stream(K, n), i)

\* The frames of the same stream ingested in order by a fresh assembler.
InOrderFrames(K) ==
    IngestAll(NewFrameBuffer(fb.frame_size), Stream(K, Len(fed[1].msg)))

IsStale(f, d) == DeclaredOffset(d.seqn, d.msg) + f.capacity < f.highest

\* C21: ingesting a datagram that lags more than one ring size behind the
\* cursor returns no frame and leaves the ring and the cursor as they were, so
\* that the frames of the datagrams still to come are those they would be had
\* it never arrived.
C21_StaleDatagramDropped ==
    [][(sockq # <<>> /\ IsStale(fb, Head(sockq)) /\ recvs' = recvs + 1) =>
          /\ emitted' = emitted
          /\ fb' = fb
          /\ IngestAll(fb', sockq') = IngestAll(fb, Tail(sockq))]_vars

\* A stale datagram was ingested after a frame had been emitted, and more
\* datagrams are to come.
C21_Witness ==
    /\ fed # <<>>
    /\ IsStale(fb, fed[Len(fed)])
    /\ emitted # <<>>
    /\ sockq # <<>>
    /\ IngestAll(fb, sockq) # <<>>

\* The assembler after update_frame_buffer was called on each datagram of q.
RECURSIVE FbAfter(_, _)
FbAfter(f, q) ==
    IF q = <<>> THEN f ELSE FbAfter(update_frame_buffer(q, f).fb, Tail(q))

\* For each frame returned over the datagrams q, the position of the datagram
\* it was returned on, the first datagram of q having position k.
RECURSIVE EmitPositions(_, _, _)
EmitPositions(f, q, k) ==
    IF q = <<>>
    THEN <<>>
    ELSE LET r == update_frame_buffer(q, f)
         IN  (IF r.new_frame THEN <<k>> ELSE <<>>) \o EmitPositions(r.fb, Tail(q), k + 1)

\* The datagram d ends inside the two windows the ring of f holds: the open
\* window and the one after it.
InReach(f, d) ==
    DeclaredOffset(d.seqn, d.msg) + Len(d.msg)
        <= ((f.highest \div f.frame_size) + 2) * f.frame_size

\* Every datagram of q is in reach of the ring when it is ingested, from f on.
RECURSIVE AllInReach(_, _)
AllInReach(f, q) ==
    \/ q = <<>>
    \/ /\ InReach(f, Head(q))
       /\ AllInReach(update_frame_buffer(q, f).fb, Tail(q))

\* ds without its j-th datagram.
RemoveAt(ds, j) == SubSeq(ds, 1, j - 1) \o SubSeq(ds, j + 1, Len(ds))

\* All datagrams are ingested, none of them beyond the reach of the ring; the
\* j-th was a second copy of the i-th, and it came while the cursor was still
\* inside the frame window of the datagram.
DuplicateInOpenWindow(i, j) ==
    /\ sockq = <<>>
    /\ i < j /\ j <= Len(fed)
    /\ fed[i] = fed[j]
    /\ AllInReach(NewFrameBuffer(fb.frame_size), fed)
    /\ LET g == FbAfter(NewFrameBuffer(fb.frame_size), SubSeq(fed, 1, j - 1))
       IN  DeclaredOffset(fed[j].seqn, fed[j].msg) \div fb.frame_size
              = g.highest \div fb.frame_size

RECURSIVE EmitWindows(_, _)
EmitWindows(f, q) ==
    IF q = <<>>
    THEN <<>>
    ELSE LET r == update_frame_buffer(q, f)
         IN  (IF r.new_frame THEN <<f.highest \div f.frame_size>> ELSE <<>>)
                 \o EmitWindows(r.fb, Tail(q))

\* The windows of the frames emitted so far.
emittedWindows == EmitWindows(NewFrameBuffer(fb.frame_size), fed)

\* The datagram d belongs to a window that f has emitted already.
IsLate(f, d) ==
    DeclaredOffset(d.seqn, d.msg) < (f.highest \div f.frame_size) * f.frame_size

\* Every datagram of q, ingested from f on, comes while its window is one of
\* the two the ring holds: not after it was emitted, not beyond the next.
RECURSIVE AllTimely(_, _)
AllTimely(f, q) ==
    \/ q = <<>>
    \/ /\ ~IsLate(f, Head(q))
       /\ InReach(f, Head(q))
       /\ AllTimely(update_frame_buffer(q, f).fb, Tail(q))

\* Byte i of the k-th emitted frame is zero or was written by a datagram that
\* was ingested by then and whose payload covers that offset of the frame's
\* window.
ByteIsOfItsWindow(k, i) ==
    LET off == emittedWindows[k] * fb.frame_size + i - 1
    IN  \/ emitted[k][i] = 0
        \/ \E x \in 1..emittedAt[k] :
              LET o == DeclaredOffset(fed[x].seqn, fed[x].msg)
              IN  /\ o <= off /\ off < o + Len(fed[x].msg)
                  /\ emitted[k][i] = fed[x].msg[off - o + 1]

C24_HandoffDropsOldest ==
    [][/\ Len(sockq') <= MaxQueue
       /\ ENABLED (Arrive \/ Lose) \/ sent = MaxSent
       /\ (Len(sockq) = MaxQueue /\ sent' = sent + 1) =>
             sockq' = Append(Tail(sockq), Packet(sent + 1, flushes = 0))]_vars

C26_CloseIsIdempotent ==
    /\ [](closes >= 1 => sock = "closed")
    /\ [][(closes >= 1 /\ closes' = closes + 1) =>
             /\ sock' = sock
             /\ exc' = exc
             /\ pc' = pc]_vars

\* The interrupt handler closed the socket and the caller closed it again.
C26_Witness ==
    /\ intrAt = "Collecting"
    /\ closes = 2
    /\ sock = "closed"
    /\ pc = "Stopped"
    /\ exc = "none"

\* C27: what a read returns is a non-empty frame exactly when new_frame is
\* set, and the session appends it exactly then, so that frames grows by at
\* most one frame per datagram read and never without a read.
C27_AppendIffNewFrame ==
    [][/\ recvs' = recvs + 1 =>
             LET r == update_frame_buffer(sockq, fb)
             IN  /\ (r.frame_data # <<>>) <=> r.new_frame
                 /\ r.new_frame => frames' = Append(frames, r.frame_data)
                 /\ ~r.new_frame => frames' = frames
       /\ Len(frames') > Len(frames) => recvs' = recvs + 1]_vars

\* The first read returned no frame and the second returned one.
C27_Witness ==
    /\ recvs = 2
    /\ emittedAt = <<2>>
    /\ Len(frames) = 1
    /\ frames[1] # <<>>

\* The x-th datagram ingested belonged to a window emitted before it came.
CameLate(x) ==
    /\ x \in 1..Len(fed)
    /\ IsLate(FbAfter(NewFrameBuffer(fb.frame_size), SubSeq(fed, 1, x - 1)), fed[x])

\* C28: the windows of the emitted frames are strictly increasing, so that no
\* window is emitted twice or out of order, and ingesting a datagram of a
\* window that was emitted already emits nothing.
C28_WindowsStrictlyIncreasing ==
    /\ [](\A k \in 1..Len(emittedWindows) : \A l \in 1..Len(emittedWindows) :
             k < l => emittedWindows[k] < emittedWindows[l])
    /\ [][(sockq # <<>> /\ IsLate(fb, Head(sockq)) /\ recvs' = recvs + 1)
             => emitted' = emitted]_vars

\* A datagram came after its window had been emitted, and the next window
\* was emitted after that.
C28_Witness ==
    /\ Len(emitted) = 2
    /\ emittedWindows = <<0, 1>>
    /\ \E x \in 1..MaxInput : CameLate(x) /\ emittedAt[1] < x /\ x < emittedAt[2]

(***************************************************************************)
(* DCAPub.__init__, lines 54-67: the receive buffer of the data socket is  *)
(* requested, and the size in effect is read back and printed. The OS may  *)
(* reject the request (setsockopt raises OSError), clamp it to rmem_max,   *)
(* and report the size in effect multiplied by a bookkeeping factor.       *)
(***************************************************************************)
OSes ==
    [rejects  : BOOLEAN,
     rmem_max : {k * RmemUnit : k \in 1..MaxRmemUnits},
     factor   : {1, 2}]

OpenInit ==
    /\ pc = "Opening"
    /\ os \in OSes
    /\ rcvbuf \in {k * DefaultUnit : k \in 1..MaxDefaultUnits}
    /\ report = [actual |-> None, requested |-> None, warned |-> FALSE]
    /\ n_frames = 0
    /\ frames = <<>>
    /\ capture_start_time = None
    /\ datetime_start_time = None
    /\ now = 0
    /\ sockq = <<>>
    /\ sent = 0
    /\ fb = NewFrameBuffer(MaxFrameSize)
    /\ closes = 0
    /\ exc = "none"
    /\ disk = [dir |-> FALSE, bin |-> <<>>, meta |-> <<>>]
    /\ flushes = 0
    /\ recvs = 0
    /\ staleIn = FALSE
    /\ discarded = 0
    /\ timeouts = 0
    /\ errors = 0
    /\ intrAt = "none"
    /\ firstAt = None
    /\ saves = 0
    /\ emitted = <<>>
    /\ reordered = FALSE
    /\ fed = <<>>
    /\ emittedAt = <<>>
    /\ reshape = TRUE
    /\ second = FALSE
    /\ returned = NoReturn
    /\ sock = "open"
    /\ lastFrameTime = 0

\* Faulty variant of SetRcvBuf: a rejected request ends the constructor.
SetRcvBufRaises ==
    /\ pc = "Opening"
    /\ IF os.rejects
       THEN /\ pc' = "Raised"
            /\ exc' = "OSError"
            /\ UNCHANGED <<rcvbuf, report>>
       ELSE /\ pc' = "ReadBack"
            /\ rcvbuf' = Min(RequestedSize, os.rmem_max) * os.factor
            /\ UNCHANGED <<exc, report>>
    /\ UNCHANGED <<n_frames, frames, capture_start_time, datetime_start_time, now,
                   sockq, sent, fb, closes, disk, flushes, recvs, staleIn, lastFrameTime,
                   discarded, timeouts, errors, intrAt, firstAt, saves, emitted,
                   reordered, fed, emittedAt, sock, os, reshape, second, returned>>

\* lines 58-64: setsockopt(SO_RCVBUF, buffer_size); an OSError is caught and
\* a warning is printed.
SetRcvBuf ==
    /\ pc = "Opening"
    /\ pc' = "ReadBack"
    /\ IF os.rejects
       THEN /\ report' = [report EXCEPT !.warned = TRUE]
            /\ UNCHANGED rcvbuf
       ELSE /\ rcvbuf' = Min(RequestedSize, os.rmem_max) * os.factor
            /\ UNCHANGED report
    /\ UNCHANGED <<n_frames, frames, capture_start_time, datetime_start_time, now,
                   sockq, sent, fb, closes, exc, disk, flushes, recvs, staleIn,
                   lastFrameTime, discarded, timeouts, errors, intrAt, firstAt, saves,
                   emitted, reordered, fed, emittedAt, sock, os, reshape, second, returned>>

\* lines 65-67 and 79-81: getsockopt(SO_RCVBUF) is printed next to the
\* requested size; the constructor goes on to build the frame buffer.
ReadBack ==
    /\ pc = "ReadBack"
    /\ report' = [report EXCEPT !.actual = rcvbuf, !.requested = RequestedSize]
    /\ pc' = "Idle"
    /\ UNCHANGED <<n_frames, frames, capture_start_time, datetime_start_time, now,
                   sockq, sent, fb, closes, exc, disk, flushes, recvs, staleIn,
                   lastFrameTime, discarded, timeouts, errors, intrAt, firstAt, saves,
                   emitted, reordered, fed, emittedAt, sock, os, rcvbuf, reshape, second, returned>>

OpenNext == SetRcvBuf \/ ReadBack

OpenSpec == OpenInit /\ [][OpenNext]_vars

\* C29: the constructor gets through whether the OS grants, clamps or rejects
\* the requested receive-buffer size: no exception leaves it and it is never
\* stuck before the end; and the size it prints as set is the one read back
\* from the socket.
C29_BufferSizeIsAdvisory ==
    /\ exc = "none"
    /\ pc \in {"Opening", "ReadBack", "Idle"}
    /\ pc # "Idle" => ENABLED OpenNext
    /\ pc = "Idle" => report.actual = rcvbuf /\ report.requested = RequestedSize

\* The OS rejected the request: the constructor is through and has printed
\* the size in effect, which is not the requested one.
C29_Witness ==
    /\ pc = "Idle"
    /\ os.rejects
    /\ report.warned
    /\ report.actual # report.requested
    /\ report.actual = rcvbuf

(***************************************************************************)
(* Radar.read, lines 192-222: one frame is read from the radar. The radar  *)
(* may have been used before the call: up to MaxPrior datagrams of the     *)
(* stream have already passed through the assembler.                       *)
(***************************************************************************)
MaxPrior == 2
\* datagrams ingested before read is called

ReadInit ==
    /\ pc = "ReadIdle"
    /\ reshape \in BOOLEAN
    /\ second = FALSE
    /\ returned = NoReturn
    /\ sent \in 0..MaxPrior
    /\ \E s \in FrameSizes :
           fb = FbAfter(NewFrameBuffer(s), [i \in 1..sent |-> Packet(i, TRUE)])
    /\ sockq \in {<<>>, <<Residual>>}
    /\ n_frames = 0
    /\ frames = <<>>
    /\ capture_start_time = None
    /\ datetime_start_time = None
    /\ now = 0
    /\ closes = 0
    /\ exc = "none"
    /\ disk = [dir |-> FALSE, bin |-> <<>>, meta |-> <<>>]
    /\ flushes = 0
    /\ recvs = 0
    /\ staleIn = FALSE
    /\ discarded = 0
    /\ timeouts = 0
    /\ errors = 0
    /\ intrAt = "none"
    /\ lastFrameTime = 0
    /\ report = [actual |-> RequestedSize, requested |-> RequestedSize, warned |-> FALSE]
    /\ rcvbuf = RequestedSize
    /\ os = AcceptingOS
    /\ sock = "open"
    /\ emittedAt = <<>>
    /\ fed = <<>>
    /\ reordered = FALSE
    /\ emitted = <<>>
    /\ saves = 0
    /\ firstAt = None

\* lines 197-200: the data socket is flushed, second = False.
ReadEnter ==
    /\ pc = "ReadIdle"
    /\ sockq' = flush_data_socket(sockq)
    /\ flushes' = flushes + 1
    /\ discarded' = Len(sockq)
    /\ second' = FALSE
    /\ pc' = "Reading"
    /\ UNCHANGED <<n_frames, frames, capture_start_time, datetime_start_time, now,
                   sent, fb, closes, exc, disk, recvs, staleIn, timeouts, errors,
                   intrAt, lastFrameTime, firstAt, saves, emitted, reordered, fed,
                   emittedAt, sock, os, rcvbuf, report, reshape, returned>>

\* Faulty variant of ReadIterate: the first new frame is returned.
ReadIterateReturnsFirst ==
    /\ pc = "Reading"
    /\ sockq # <<>>
    /\ LET r == update_frame_buffer(sockq, fb)
           d == recv_data(sockq)
       IN  /\ sockq' = Tail(sockq)
           /\ fb' = r.fb
           /\ recvs' = recvs + 1
           /\ staleIn' = (staleIn \/ d.pre)
           /\ IF r.new_frame
              THEN /\ returned' = IF reshape
                                  THEN reshape_frame(r.frame_data)
                                  ELSE [data |-> r.frame_data, reshaped |-> FALSE]
                   /\ pc' = "ReadReturned"
                   /\ UNCHANGED second
              ELSE UNCHANGED <<pc, second, returned>>
           /\ emitted' = IF r.new_frame THEN Append(emitted, r.frame_data) ELSE emitted
           /\ reordered' = (reordered \/ d.seqn * Len(d.msg) <= fb.highest)
           /\ fed' = Append(fed, d)
           /\ emittedAt' = IF r.new_frame THEN Append(emittedAt, recvs + 1) ELSE emittedAt
    /\ UNCHANGED <<n_frames, frames, capture_start_time, datetime_start_time, now,
                   sent, closes, exc, disk, flushes, discarded, timeouts, errors,
                   intrAt, lastFrameTime, firstAt, saves, sock, os, rcvbuf, report,
                   reshape>>

\* lines 203-220: one iteration of the loop in which recv_data returns a
\* datagram. The first new frame only sets `second`; the next one is returned,
\* reshaped if self.reshape.
ReadIterate ==
    /\ pc = "Reading"
    /\ sockq # <<>>
    /\ LET r == update_frame_buffer(sockq, fb)
           d == recv_data(sockq)
       IN  /\ sockq' = Tail(sockq)
           /\ fb' = r.fb
           /\ recvs' = recvs + 1
           /\ staleIn' = (staleIn \/ d.pre)
           /\ IF r.new_frame
              THEN IF ~second
                   THEN /\ second' = TRUE
                        /\ UNCHANGED <<pc, returned>>
                   ELSE /\ returned' = IF reshape
                                       THEN reshape_frame(r.frame_data)
                                       ELSE [data |-> r.frame_data, reshaped |-> FALSE]
                        /\ pc' = "ReadReturned"
                        /\ UNCHANGED second
              ELSE UNCHANGED <<pc, second, returned>>
           /\ emitted' = IF r.new_frame THEN Append(emitted, r.frame_data) ELSE emitted
           /\ reordered' = (reordered \/ d.seqn * Len(d.msg) <= fb.highest)
           /\ fed' = Append(fed, d)
           /\ emittedAt' = IF r.new_frame THEN Append(emittedAt, recvs + 1) ELSE emittedAt
    /\ UNCHANGED <<n_frames, frames, capture_start_time, datetime_start_time, now,
                   sent, closes, exc, disk, flushes, discarded, timeouts, errors,
                   intrAt, lastFrameTime, firstAt, saves, sock, os, rcvbuf, report,
                   reshape>>

\* dcapub.py lines 86-89 and radar.py line 221: socket.timeout is re-raised by
\* update_frame_buffer and is not a KeyboardInterrupt, so it leaves read.
ReadTimeout ==
    /\ pc = "Reading"
    /\ sockq = <<>>
    /\ now' = Min(now + SocketTimeout, MaxTime)
    /\ pc' = "Raised"
    /\ exc' = "Timeout"
    /\ timeouts' = timeouts + 1
    /\ UNCHANGED <<n_frames, frames, capture_start_time, datetime_start_time, sockq,
                   sent, fb, closes, disk, flushes, recvs, staleIn, lastFrameTime,
                   discarded, errors, intrAt, firstAt, saves, emitted, reordered, fed,
                   emittedAt, sock, os, rcvbuf, report, reshape, second, returned>>

\* lines 221-222: a KeyboardInterrupt inside the loop is caught and printed;
\* read then falls off its end and returns None.
ReadInterrupt ==
    /\ pc = "Reading"
    /\ intrAt' = pc
    /\ pc' = "ReadReturned"
    /\ UNCHANGED <<n_frames, frames, capture_start_time, datetime_start_time, now,
                   sockq, sent, fb, closes, exc, disk, flushes, recvs, staleIn,
                   lastFrameTime, discarded, timeouts, errors, firstAt, saves, emitted,
                   reordered, fed, emittedAt, sock, os, rcvbuf, report, reshape, second,
                   returned>>

ReadNext ==
    \/ ReadEnter
    \/ ReadIterate
    \/ ReadTimeout
    \/ ReadInterrupt
    \/ Arrive
    \/ ArriveOvertaking
    \/ Lose

ReadSpec == ReadInit /\ [][ReadNext]_vars

\* C30: read flushes the data socket once, at its entry; the first frame the
\* assembler completes after the flush is not returned, it only sets `second`;
\* when read returns a frame, the assembler has completed exactly two frames
\* since the flush and the frame returned is the second one (reshaped if
\* self.reshape), never the first. read returns no frame only when it was
\* interrupted.
C30_ReadReturnsSecondFrame ==
    /\ flushes = (IF pc = "ReadIdle" THEN 0 ELSE 1)
    /\ pc = "Reading" => Len(emitted) <= 1 /\ (second <=> Len(emitted) = 1)
    /\ returned # NoReturn =>
           /\ pc = "ReadReturned"
           /\ Len(emitted) = 2
           /\ returned.data = emitted[2]
           /\ returned.data # emitted[1]
           /\ returned.reshaped = reshape
           /\ emittedAt[1] < emittedAt[2] /\ emittedAt[2] = recvs
    /\ pc = "ReadReturned" /\ returned = NoReturn => intrAt = "Reading"

\* C30 witness: read threw a left-over datagram away, set aside the first frame
\* completed after the flush and returned the second one.
C30_Witness ==
    /\ pc = "ReadReturned"
    /\ discarded = 1
    /\ Len(emitted) = 2
    /\ returned = reshape_frame(emitted[2])
    /\ emitted[1] # emitted[2]

\* C31: save_frames is never entered with an empty list of frames or with
\* capture_start_time unset, whatever n_frames >= 0 is, n_frames = 0 included.
C31_SaveNeverEnteredEmpty ==
    [][saves' > saves => frames # <<>> /\ capture_start_time # None]_vars

=============================================================================
